---- MODULE Spec2Model ----
(***************************************************************************)
(* Model of routeros/provider_schema_helpers.go of the RouterOS Terraform  *)
(* provider: the schema property constructors, the field validators, the   *)
(* diff-suppress functions and buildReadFilter, together with the          *)
(* reconciliation cycle that consumes them.                                *)
(*                                                                         *)
(* A Go string is modelled as a sequence of one-character strings, so that *)
(* parsing, matching and concatenation are computed and not assumed.       *)
(***************************************************************************)
EXTENDS Integers, Sequences, FiniteSets, TLC

VARIABLES pc, v, diags, key, old, new, ret, fm, res, prev, schema,
          device, identity, last, plan, issued, inPlaceReordering

vars == <<pc, v, diags, key, old, new, ret, fm, res, prev, schema,
          device, identity, last, plan, issued, inPlaceReordering>>

valVars == <<v, diags>>
eqVars == <<key, old, new, ret>>
filterVars == <<fm, res, prev>>
schemaVars == <<schema>>
engVars == <<device, identity, last, plan, issued, inPlaceReordering>>

(***************************************************************************)
(* Strings.                                                                *)
(***************************************************************************)
DigitChars == <<"0", "1", "2", "3", "4", "5", "6", "7", "8", "9">>

LowerChars == <<"a", "b", "c", "d", "e", "f", "g", "h", "i", "j", "k", "l", "m", "n", "o", "p", "q", "r", "s", "t", "u", "v", "w", "x", "y", "z">>

UpperChars == <<"A", "B", "C", "D", "E", "F", "G", "H", "I", "J", "K", "L", "M", "N", "O", "P", "Q", "R", "S", "T", "U", "V", "W", "X", "Y", "Z">>

IsIn(tab, c) == \E i \in 1..Len(tab) : tab[i] = c

IndexOf(tab, c) == CHOOSE i \in 1..Len(tab) : tab[i] = c

\* strconv's lower(c): ASCII upper-case letters fold onto lower-case ones.
lower(c) == IF IsIn(UpperChars, c) THEN LowerChars[IndexOf(UpperChars, c)] ELSE c

IsDigit(c) == IsIn(DigitChars, c)

DigitVal(c) == IndexOf(DigitChars, c) - 1

Tail2(s) == SubSeq(s, 3, Len(s))

\* strings.Contains(s, sub)
Contains(s, sub) ==
  \E i \in 0..(Len(s) - Len(sub)) : SubSeq(s, i + 1, i + Len(sub)) = sub

\* All strings over the character set cs of length at most n.
StringsUpTo(cs, n) == UNION { [1..k -> cs] : k \in 0..n }

(***************************************************************************)
(* 64-bit integers.  A uint64 is kept as its limbs in base 10000, least    *)
(* significant first and without high zero limbs (zero is <<>>), so that   *)
(* values up to and beyond 2^64 are computed exactly and the overflow      *)
(* tests of strconv are decided as the code decides them.  An int64 is a   *)
(* sign and a magnitude; zero is never negative.                           *)
(***************************************************************************)
RECURSIVE BigMulAdd(_, _, _)
\* a * m + c, for 1 <= m <= 36 and 0 <= c < 10000.
BigMulAdd(a, m, c) ==
  IF a = <<>> THEN (IF c = 0 THEN <<>> ELSE <<c>>)
  ELSE LET t == Head(a) * m + c
       IN <<t % 10000>> \o BigMulAdd(Tail(a), m, t \div 10000)

RECURSIVE BigCmpFrom(_, _, _)
\* The order of two numbers of the same length, compared from limb i down.
BigCmpFrom(a, b, i) ==
  IF i = 0 THEN 0
  ELSE IF a[i] < b[i] THEN 0 - 1
  ELSE IF a[i] > b[i] THEN 1
  ELSE BigCmpFrom(a, b, i - 1)

\* -1, 0 or 1 as a < b, a = b or a > b.
BigCmp(a, b) ==
  IF Len(a) < Len(b) THEN 0 - 1
  ELSE IF Len(a) > Len(b) THEN 1
  ELSE BigCmpFrom(a, b, Len(a))

RECURSIVE BigStrip(_)
\* a without its high zero limbs.
BigStrip(a) ==
  IF a # <<>> /\ a[Len(a)] = 0 THEN BigStrip(SubSeq(a, 1, Len(a) - 1)) ELSE a

RECURSIVE BigDivFrom(_, _, _, _)
\* The quotient limbs of a / m from limb i down, rem carried from above.
BigDivFrom(a, m, i, rem) ==
  IF i = 0 THEN <<>>
  ELSE LET t == rem * 10000 + a[i]
       IN BigDivFrom(a, m, i - 1, t % m) \o <<t \div m>>

\* a / m (integer division), for 1 <= m <= 36.
BigDiv(a, m) == BigStrip(BigDivFrom(a, m, Len(a), 0))

\* A natural number below 10^8 as a uint64.
BigOf(k) == BigStrip(<<k % 10000, k \div 10000>>)

\* 1<<64 - 1 = 18446744073709551615
MaxUint64 == <<1615, 955, 737, 6744, 1844>>

\* uint64(1 << 63) = 9223372036854775808
Int64Cutoff == <<5808, 5477, 368, 3372, 922>>

\* int64(cutoff - 1) = 9223372036854775807
Int64Max == <<5807, 5477, 368, 3372, 922>>

Int64(neg, mag) == [neg |-> neg /\ mag # <<>>, mag |-> mag]

(***************************************************************************)
(* strconv.ParseInt(s, 0, 64), as called by the MTU validator and by       *)
(* HexEqual.  The result is [err, n]; err is "nil", "syntax" or "range".   *)
(***************************************************************************)
SyntaxError == [err |-> "syntax", n |-> <<>>]

\* ParseUint's (maxVal, rangeError).
RangeError == [err |-> "range", n |-> MaxUint64]

underscoreOK(s0) ==
  LET s == IF Len(s0) >= 1 /\ s0[1] \in {"-", "+"} THEN Tail(s0) ELSE s0
      pre == Len(s) >= 2 /\ s[1] = "0" /\ lower(s[2]) \in {"b", "o", "x"}
      hex == pre /\ lower(s[2]) = "x"
      IsDig(c) == IsDigit(c) \/ (hex /\ lower(c) \in {"a", "b", "c", "d", "e", "f"})
      \* saw after reading s[1..i]: "^" beginning, "0" digit, "_" underscore,
      \* "!" anything else; "bad" once a misplaced underscore was met.
      saw[i \in 0..Len(s)] ==
        IF i = 0 THEN "^"
        ELSE IF pre /\ i <= 2 THEN "0"
        ELSE LET p == saw[i - 1] IN
          IF p = "bad" THEN "bad"
          ELSE IF IsDig(s[i]) THEN "0"
          ELSE IF s[i] = "_" THEN (IF p # "0" THEN "bad" ELSE "_")
          ELSE IF p = "_" THEN "bad"
          ELSE "!"
  IN saw[Len(s)] \notin {"_", "bad"}

\* cutoff: the smallest number n such that n*base overflows a uint64.
UintCutoff(base) == BigMulAdd(BigDiv(MaxUint64, base), 1, 1)

RECURSIVE ParseDigits(_, _, _, _)
\* The digit loop of ParseUint: s is the text after sign and prefix, base0
\* tells whether underscores are skipped, n is the uint64 read so far.
ParseDigits(s, base, base0, n) ==
  IF s = <<>> THEN [err |-> "nil", n |-> n]
  ELSE LET c == Head(s) IN
    IF c = "_" /\ base0 THEN ParseDigits(Tail(s), base, base0, n)
    ELSE IF ~(IsDigit(c) \/ IsIn(LowerChars, lower(c))) THEN SyntaxError
    ELSE LET d == IF IsDigit(c) THEN DigitVal(c)
                  ELSE IndexOf(LowerChars, lower(c)) - 1 + 10
             \* n*base + d before it is cut to 64 bits; n1 < n in the code
             \* is this sum having wrapped, that is being above maxVal.
             n1 == BigMulAdd(n, base, d)
         IN IF d >= base THEN SyntaxError
            ELSE IF BigCmp(n, UintCutoff(base)) >= 0 THEN RangeError
            ELSE IF BigCmp(n1, MaxUint64) > 0 THEN RangeError
            ELSE ParseDigits(Tail(s), base, base0, n1)

ParseUint(s) ==
  IF s = <<>> THEN SyntaxError
  ELSE LET pre == s[1] = "0" /\ Len(s) >= 3
           base == IF s[1] # "0" THEN 10
                   ELSE IF pre /\ lower(s[2]) = "b" THEN 2
                   ELSE IF pre /\ lower(s[2]) = "o" THEN 8
                   ELSE IF pre /\ lower(s[2]) = "x" THEN 16
                   ELSE 8
           body == IF s[1] # "0" THEN s
                   ELSE IF pre /\ lower(s[2]) \in {"b", "o", "x"} THEN Tail2(s)
                   ELSE Tail(s)
           r == ParseDigits(body, base, TRUE, <<>>)
       IN IF r.err # "nil" THEN r
          ELSE IF (\E i \in 1..Len(body) : body[i] = "_") /\ ~underscoreOK(s)
               THEN SyntaxError
          ELSE r

\* The result n is an int64.
ParseInt(s) ==
  IF s = <<>> THEN [err |-> "syntax", n |-> Int64(FALSE, <<>>)]
  ELSE LET neg == s[1] = "-"
           u == IF s[1] \in {"+", "-"} THEN Tail(s) ELSE s
           r == ParseUint(u)
       IN IF r.err # "nil" /\ r.err # "range"
          THEN [err |-> r.err, n |-> Int64(FALSE, <<>>)]
          ELSE IF ~neg /\ BigCmp(r.n, Int64Cutoff) >= 0
          THEN [err |-> "range", n |-> Int64(FALSE, Int64Max)]
          ELSE IF neg /\ BigCmp(r.n, Int64Cutoff) > 0
          THEN [err |-> "range", n |-> Int64(TRUE, Int64Cutoff)]
          ELSE [err |-> "nil", n |-> Int64(neg, r.n)]

\* n < 0 and n > k for an int64 n and a small natural k.
IntNegative(n) == n.neg

IntAbove(n, k) == ~n.neg /\ BigCmp(n.mag, BigOf(k)) > 0

(***************************************************************************)
(* PropMtuRw: the MTU validator.                                           *)
(***************************************************************************)
Auto == <<"a", "u", "t", "o">>

MtuMax == 65535

MsgMtuNotInt == <<"E", "x", "p", "e", "c", "t", "e", "d", " ", "M", "T", "U", " ", "v", "a", "l", "u", "e", " ", "t", "o", " ", "b", "e", " ", "i", "n", "t", "e", "g", "e", "r", " ", "o", "r", " ", "'", "a", "u", "t", "o", "'">>

MsgMtuRange == <<"E", "x", "p", "e", "c", "t", "e", "d", " ", "M", "T", "U", " ", "v", "a", "l", "u", "e", " ", "t", "o", " ", "b", "e", " ", "i", "n", " ", "t", "h", "e", " ", "r", "a", "n", "g", "e", " ", "(", "0", " ", "-", " ", "6", "5", "5", "3", "5", ")", ",", " ", "g", "o", "t", " ">>

ErrorDiag(summary) == <<[Severity |-> "Error", Summary |-> summary]>>

\* Mutant of MtuValidate: the upper bound of the range test is dropped.
MtuValidateNoUpper(s) ==
  IF s = Auto THEN <<>>
  ELSE LET r == ParseInt(s) IN
    IF r.err # "nil" THEN ErrorDiag(MsgMtuNotInt)
    ELSE IF IntNegative(r.n) THEN ErrorDiag(MsgMtuRange \o s)
    ELSE <<>>

\* Mutant of MtuValidate: the range diagnostic leaves the value out.
MtuValidateNoValue(s) ==
  IF s = Auto THEN <<>>
  ELSE LET r == ParseInt(s) IN
    IF r.err # "nil" THEN ErrorDiag(MsgMtuNotInt)
    ELSE IF IntNegative(r.n) \/ IntAbove(r.n, MtuMax) THEN ErrorDiag(MsgMtuRange)
    ELSE <<>>

\* ValidateDiagFunc of PropMtuRw; <<>> is the nil diagnostics.
MtuValidate(s) ==
  IF s = Auto THEN <<>>
  ELSE LET r == ParseInt(s) IN
    IF r.err # "nil" THEN ErrorDiag(MsgMtuNotInt)
    ELSE IF IntNegative(r.n) \/ IntAbove(r.n, MtuMax) THEN ErrorDiag(MsgMtuRange \o s)
    ELSE <<>>

(***************************************************************************)
(* regexp.MatchString.  A regular expression is a tree; Ends(re, s, i) is  *)
(* the set of positions where a match of re that starts at position i of s *)
(* (0 is before the first character) can end.  MatchString finds a match   *)
(* starting anywhere: only the ^ and $ of the expression anchor it.        *)
(***************************************************************************)
ReBol == [op |-> "bol"]

ReEol == [op |-> "eol"]

ReClass(cs) == [op |-> "class", cs |-> cs]

ReLit(str) == [op |-> "lit", str |-> str]

ReCat(parts) == [op |-> "cat", parts |-> parts]

ReAlt(parts) == [op |-> "alt", parts |-> parts]

ReOpt(a) == [op |-> "opt", a |-> a]

RePlus(a) == [op |-> "plus", a |-> a]

\* \d
ReDigit == ReClass({"0", "1", "2", "3", "4", "5", "6", "7", "8", "9"})

RECURSIVE Ends(_, _, _), EndsCat(_, _, _), EndsPlus(_, _, _, _)
Ends(re, s, i) ==
  CASE re.op = "bol" -> IF i = 0 THEN {i} ELSE {}
    [] re.op = "eol" -> IF i = Len(s) THEN {i} ELSE {}
    [] re.op = "class" -> IF i < Len(s) /\ s[i + 1] \in re.cs THEN {i + 1} ELSE {}
    [] re.op = "lit" ->
         IF i + Len(re.str) <= Len(s) /\ SubSeq(s, i + 1, i + Len(re.str)) = re.str
         THEN {i + Len(re.str)} ELSE {}
    [] re.op = "cat" -> EndsCat(re.parts, s, {i})
    [] re.op = "alt" -> UNION { Ends(re.parts[k], s, i) : k \in 1..Len(re.parts) }
    [] re.op = "opt" -> {i} \cup Ends(re.a, s, i)
    [] re.op = "plus" -> EndsPlus(re.a, s, Ends(re.a, s, i), {})

\* The parts one after the other, from any of the positions in from.
EndsCat(parts, s, from) ==
  IF parts = <<>> \/ from = {} THEN from
  ELSE EndsCat(Tail(parts), s, UNION { Ends(Head(parts), s, j) : j \in from })

\* One or more repetitions: the positions reached, until no new one appears.
EndsPlus(a, s, frontier, seen) ==
  IF frontier \subseteq seen THEN seen
  ELSE EndsPlus(a, s, UNION { Ends(a, s, j) : j \in frontier \ seen }, seen \cup frontier)

MatchString(re, s) == \E i \in 0..Len(s) : Ends(re, s, i) # {}

\* fmt.Errorf("invalid value for %s (%s)", k, message), kept as its parts.
InvalidValue(k, message) == <<"invalid value for ", k, " (", message, ")">>

\* validation.StringMatch(r, message) applied to the value s of the field k:
\* no error when r matches, else one error carrying the message.
StringMatch(re, message, s, k) ==
  IF MatchString(re, s) THEN <<>>
  ELSE <<[Severity |-> "Error", Summary |-> InvalidValue(k, message)]>>

(***************************************************************************)
(* ValidationTime: ^(\d+[smhdw]?)+$                                        *)
(***************************************************************************)
\* Mutant of TimeRegexp: the unit after the integer is not optional.
TimeRegexpUnitRequired ==
  ReCat(<<ReBol,
          RePlus(ReCat(<<RePlus(ReDigit), ReClass({"s", "m", "h", "d", "w"})>>)),
          ReEol>>)

TimeRegexp ==
  ReCat(<<ReBol,
          RePlus(ReCat(<<RePlus(ReDigit), ReOpt(ReClass({"s", "m", "h", "d", "w"}))>>)),
          ReEol>>)

MsgTime == "value must be integer[/time],integer 0..4294967295"

ValidationTime(s, k) == StringMatch(TimeRegexp, MsgTime, s, k)

(***************************************************************************)
(* PropArpTimeoutRw: ^$|auto$|(\d+(ms|s|M|h|d)?)+$                         *)
(***************************************************************************)
ArpTimeoutRegexp ==
  ReAlt(<<ReCat(<<ReBol, ReEol>>),
          ReCat(<<ReLit(<<"a", "u", "t", "o">>), ReEol>>),
          ReCat(<<RePlus(ReCat(<<RePlus(ReDigit),
                                ReOpt(ReAlt(<<ReLit(<<"m", "s">>), ReLit(<<"s">>),
                                              ReLit(<<"M">>), ReLit(<<"h">>),
                                              ReLit(<<"d">>)>>))>>)),
                  ReEol>>)>>)

MsgArpTimeout == "expected arp_timout value to be 'auto' string or time value"

ArpTimeoutValidate(s, k) == StringMatch(ArpTimeoutRegexp, MsgArpTimeout, s, k)

(***************************************************************************)
(* ParseDuration and Duration.Seconds.  A duration string is a sequence of *)
(* <integer><unit> tokens with units ms, s, M, h, d, w; its value is the   *)
(* sum of the tokens.  A duration is kept as whole seconds and remaining   *)
(* milliseconds, which is the number Seconds() reports.                    *)
(***************************************************************************)
UnitMillis(u) ==
  CASE u = <<"m", "s">> -> [sec |-> 0, ms |-> 1]
    [] u = <<"s">> -> [sec |-> 1, ms |-> 0]
    [] u = <<"M">> -> [sec |-> 60, ms |-> 0]
    [] u = <<"h">> -> [sec |-> 3600, ms |-> 0]
    [] u = <<"d">> -> [sec |-> 86400, ms |-> 0]
    [] u = <<"w">> -> [sec |-> 604800, ms |-> 0]

RECURSIVE DecimalValue(_, _)
DecimalValue(s, n) ==
  IF s = <<>> THEN n ELSE DecimalValue(Tail(s), n * 10 + DigitVal(Head(s)))

RECURSIVE LeadingDigits(_)
LeadingDigits(s) ==
  IF s # <<>> /\ IsDigit(Head(s)) THEN 1 + LeadingDigits(Tail(s)) ELSE 0

RECURSIVE ParseDurationFrom(_, _)
\* The tokens of s added to the duration d read so far.
ParseDurationFrom(s, d) ==
  IF s = <<>> THEN [err |-> "nil", d |-> d]
  ELSE LET n == LeadingDigits(s)
           r == SubSeq(s, n + 1, Len(s))
           u == IF Len(r) >= 2 /\ SubSeq(r, 1, 2) = <<"m", "s">> THEN 2
                ELSE IF r # <<>> /\ r[1] \in {"s", "M", "h", "d", "w"} THEN 1
                ELSE 0
       IN IF n = 0 \/ u = 0 THEN [err |-> "invalid duration", d |-> d]
          ELSE LET k == DecimalValue(SubSeq(s, 1, n), 0)
                   per == UnitMillis(SubSeq(r, 1, u))
                   ms == d.ms + k * per.ms
               IN ParseDurationFrom(SubSeq(r, u + 1, Len(r)),
                                    [sec |-> d.sec + k * per.sec + (ms \div 1000),
                                     ms |-> ms % 1000])

ParseDuration(s) ==
  IF s = <<>> THEN [err |-> "invalid duration", d |-> [sec |-> 0, ms |-> 0]]
  ELSE ParseDurationFrom(s, [sec |-> 0, ms |-> 0])

\* Duration.Seconds(): the duration as a number of seconds, fraction included.
Seconds(d) == <<d.sec, d.ms>>

(***************************************************************************)
(* The DiffSuppressFunc values.  The result is "true", "false" or "panic". *)
(***************************************************************************)
BoolStr(b) == IF b THEN "true" ELSE "false"

\* Mutant of TimeEquall: the two texts are compared, not the durations.
TimeEquallByText(k, o, n) == BoolStr(o = n)

TimeEquall(k, o, n) ==
  IF o = n THEN "true"
  ELSE IF o = <<>> \/ n = <<>> THEN "false"
  ELSE IF ParseDuration(o).err # "nil" THEN "panic"
  ELSE IF ParseDuration(n).err # "nil" THEN "panic"
  ELSE BoolStr(Seconds(ParseDuration(o).d) = Seconds(ParseDuration(n).d))

HexEqual(k, o, n) ==
  IF o = n THEN "true"
  ELSE IF o = <<>> \/ n = <<>> THEN "false"
  ELSE IF ParseInt(o).err # "nil" THEN "panic"
  ELSE IF ParseInt(n).err # "nil" THEN "panic"
  ELSE BoolStr(ParseInt(o).n = ParseInt(n).n)

\* Mutant of AlwaysSuppress: the two texts are compared.
SuppressByText(k, o, n) == BoolStr(o = n)

\* DiffSuppressFunc of PropResourcePath and of PropId.
AlwaysSuppress(k, o, n) == "true"

(***************************************************************************)
(* buildReadFilter.                                                        *)
(***************************************************************************)
\* Mutant of FilterEntry: the separator between field and value is lost.
FilterEntryNoSeparator(fieldName, fieldValue) == fieldName \o fieldValue

\* fmt.Sprintf("%v=%v", fieldName, fieldValue) for string values.
FilterEntry(fieldName, fieldValue) == fieldName \o <<"=">> \o fieldValue

\* The orders in which a range over the map m can visit its keys: Go leaves
\* the iteration order of a map unspecified, so every order is possible.
RangeOrders(m) ==
  { o \in [1..Cardinality(DOMAIN m) -> DOMAIN m] :
      \A i, j \in DOMAIN o : i # j => o[i] # o[j] }

\* The slices buildReadFilter(m) can return.
buildReadFilter(m) ==
  { [i \in DOMAIN o |-> FilterEntry(o[i], m[o[i]])] : o \in RangeOrders(m) }

(***************************************************************************)
(* Schema properties.                                                      *)
(***************************************************************************)
MetaId == "___id___"

MetaResourcePath == "___path___"

KeyArp == "arp"

KeyArpTimeout == "arp_timeout"

KeyComment == "comment"

KeyDisabled == "disabled"

KeyMtu == "mtu"

KeyName == "name"

KeyPlaceBefore == "place_before"

KeyInterval == "interval"

\* A schema.Schema value; the fields a constructor leaves out are zero.
SchemaOf(type, optional, required, computed, forceNew, suppress, validate) ==
  [Type |-> type, Optional |-> optional, Required |-> required,
   Computed |-> computed, ForceNew |-> forceNew,
   DiffSuppressFunc |-> suppress, Validate |-> validate]

PropResourcePath(p) ==
  SchemaOf("TypeString", TRUE, FALSE, FALSE, FALSE, "AlwaysSuppress", "")
    @@ [Default |-> p]

PropId(t) ==
  SchemaOf("TypeInt", TRUE, FALSE, FALSE, FALSE, "AlwaysSuppress", "") @@ [Default |-> t]

PropArpRw ==
  SchemaOf("TypeString", TRUE, FALSE, FALSE, FALSE, "", "StringInSlice")
    @@ [Default |-> "enabled"]

PropArpTimeoutRw ==
  SchemaOf("TypeString", TRUE, FALSE, FALSE, FALSE, "", "ArpTimeoutValidate")
    @@ [Default |-> "auto"]

PropCommentRw ==
  SchemaOf("TypeString", TRUE, FALSE, FALSE, FALSE, "", "") @@ [Default |-> ""]

PropDisabledRw ==
  SchemaOf("TypeBool", TRUE, FALSE, FALSE, FALSE, "", "") @@ [Default |-> "false"]

PropNameRw ==
  SchemaOf("TypeString", FALSE, TRUE, FALSE, FALSE, "", "") @@ [Default |-> ""]

PropPlaceBefore ==
  SchemaOf("TypeString", TRUE, FALSE, FALSE, TRUE, "", "") @@ [Default |-> ""]

PropMtuRw ==
  SchemaOf("TypeString", TRUE, FALSE, TRUE, FALSE, "", "MtuValidate") @@ [Default |-> ""]

\* The interval field of the scheduler resource: a duration string whose
\* diff is suppressed by TimeEquall.
PropIntervalRw ==
  SchemaOf("TypeString", TRUE, FALSE, FALSE, FALSE, "TimeEquall", "ValidationTime")
    @@ [Default |-> ""]

\* The shared properties a resource schema is assembled from.
SharedProps ==
  (KeyArp :> PropArpRw) @@ (KeyArpTimeout :> PropArpTimeoutRw)
    @@ (KeyComment :> PropCommentRw) @@ (KeyDisabled :> PropDisabledRw)
    @@ (KeyName :> PropNameRw) @@ (KeyPlaceBefore :> PropPlaceBefore)
    @@ (KeyMtu :> PropMtuRw)

(***************************************************************************)
(* The reconciliation cycle: Planning, Executing, Verifying in one call.   *)
(* The resource has the two metadata fields, a comment, a duration field   *)
(* and the positional field place_before.                                  *)
(***************************************************************************)
ResourceSchema ==
  (MetaId :> PropId("Id")) @@ (MetaResourcePath :> PropResourcePath("/system/scheduler"))
    @@ (KeyComment :> PropCommentRw) @@ (KeyInterval :> PropIntervalRw)
    @@ (KeyPlaceBefore :> PropPlaceBefore)

RecordFields == DOMAIN ResourceSchema

\* The field's DiffSuppressFunc applied to the observed and the desired
\* value; a field without one is equal when the two texts are.
SuppressResult(f, o, n) ==
  CASE ResourceSchema[f].DiffSuppressFunc = "AlwaysSuppress" -> AlwaysSuppress(f, o, n)
    [] ResourceSchema[f].DiffSuppressFunc = "TimeEquall" -> TimeEquall(f, o, n)
    [] OTHER -> BoolStr(o = n)

FieldEqual(f, o, n) == SuppressResult(f, o, n) = "true"

\* The explicitly desired fields whose observed value differs.
ChangedFields(observed, desired) ==
  { f \in DOMAIN desired : ~FieldEqual(f, observed[f], desired[f]) }

NoRecord == <<>>

\* The ordering field of the schema: the field that says before which
\* instance this one is placed.
OrderingField == KeyPlaceBefore

\* Mutant of PlanFor: a position change is planned like the change of any
\* other field.
PlanForPositionAsUpdate(id, observed, D, reordering) ==
  IF id = "" \/ observed = NoRecord THEN <<"Create">>
  ELSE IF ChangedFields(observed, D) = {} THEN <<"NoOp">>
  ELSE <<"Update">>

\* Planning: the operations for the desired instance D, in the order in
\* which they are executed.  Create without a prior instance, NoOp when no
\* desired field differs after diff-suppression, Update when one does.  A
\* change of position is a distinct Move when the remote API of the resource
\* kind supports in-place reordering (reordering), and otherwise the
\* instance is deleted and created again.
PlanFor(id, observed, D, reordering) ==
  IF id = "" \/ observed = NoRecord THEN <<"Create">>
  ELSE LET changed == ChangedFields(observed, D) IN
    IF changed = {} THEN <<"NoOp">>
    ELSE IF OrderingField \notin changed THEN <<"Update">>
    ELSE IF reordering
      THEN (IF changed = {OrderingField} THEN <<>> ELSE <<"Update">>) \o <<"Move">>
    ELSE <<"Delete", "Create">>

\* Executing: the one command of a planned operation; NoOp has none.
CommandOf(op) ==
  CASE op = "Create" -> <<"add">>
    [] op = "Update" -> <<"set">>
    [] op = "Delete" -> <<"remove">>
    [] op = "Move" -> <<"move">>
    [] op = "NoOp" -> <<>>

RECURSIVE CommandsOf(_)
CommandsOf(p) == IF p = <<>> THEN <<>> ELSE CommandOf(Head(p)) \o CommandsOf(Tail(p))

\* The commands of a call: an instance with a known identity is read
\* first, each planned operation sends its command, and Verifying reads an
\* updated instance back.
CommandsFor(id, p) ==
  (IF id = "" THEN <<>> ELSE <<"read">>) \o CommandsOf(p) \o
  (IF \E i \in 1..Len(p) : p[i] = "Update" THEN <<"read">> ELSE <<>>)

IntervalTexts == { <<"1", "w">>, <<"7", "d">>, <<"1", "d">> }

\* The notations in which the device may echo a duration it was given.
Echoes(val) ==
  { e \in IntervalTexts :
      Seconds(ParseDuration(e).d) = Seconds(ParseDuration(val).d) }

\* The record after the fields of D are written over base, the duration
\* echoed as e.
Written(base, D, e) ==
  [f \in RecordFields |->
     IF f \notin DOMAIN D THEN base[f]
     ELSE IF f = KeyInterval THEN e
     ELSE D[f]]

\* A new instance before its fields are written.
FreshRecord == [f \in RecordFields |-> <<>>]

Identities == {"*1", "*2"}

(***************************************************************************)
(* Values of the variables a specification does not use.                   *)
(***************************************************************************)
IdleVal == v = <<>> /\ diags = <<>>

IdlePair == old = <<>> /\ new = <<>> /\ ret = "none"

IdleEq == key = "" /\ IdlePair

IdleFilter == fm = <<>> /\ res = <<>> /\ prev = <<>>

IdleSchema == schema = <<>>

IdleEng ==
  /\ device = <<>> /\ identity = "" /\ last = <<>> /\ plan = <<>> /\ issued = <<>>
  /\ inPlaceReordering = FALSE

(***************************************************************************)
(* SpecMtu: the MTU validator applied to one input string.                 *)
(***************************************************************************)
MaxMtuLen == 3

MtuChars == {"0", "1", "7", "8", "x", "-", "+", "_", "a", "f"}

\* Literals around 2^63 and 2^64, where ParseInt reports a range error.
BigSamples ==
  { <<"9", "2", "2", "3", "3", "7", "2", "0", "3", "6", "8", "5", "4", "7", "7", "5", "8", "0", "7">>,
    <<"9", "2", "2", "3", "3", "7", "2", "0", "3", "6", "8", "5", "4", "7", "7", "5", "8", "0", "8">>,
    <<"-", "9", "2", "2", "3", "3", "7", "2", "0", "3", "6", "8", "5", "4", "7", "7", "5", "8", "0", "8">>,
    <<"-", "9", "2", "2", "3", "3", "7", "2", "0", "3", "6", "8", "5", "4", "7", "7", "5", "8", "0", "9">>,
    <<"1", "8", "4", "4", "6", "7", "4", "4", "0", "7", "3", "7", "0", "9", "5", "5", "1", "6", "1", "5">>,
    <<"1", "8", "4", "4", "6", "7", "4", "4", "0", "7", "3", "7", "0", "9", "5", "5", "1", "6", "1", "6">>,
    <<"9", "9", "9", "9", "9", "9", "9", "9", "9", "9", "9", "9", "9", "9", "9", "9", "9", "9", "9", "9">>,
    <<"0", "x", "7", "f", "f", "f", "f", "f", "f", "f", "f", "f", "f", "f", "f", "f", "f", "f">>,
    <<"0", "x", "8", "0", "0", "0", "0", "0", "0", "0", "0", "0", "0", "0", "0", "0", "0", "0">>,
    <<"0", "x", "1", "0", "0", "0", "0", "0", "0", "0", "0", "0", "0", "0", "0", "0", "0", "0", "0">>,
    <<"0", "7", "7", "7", "7", "7", "7", "7", "7", "7", "7", "7", "7", "7", "7", "7", "7", "7", "7", "7", "7", "7">>,
    <<"0", "1", "0", "0", "0", "0", "0", "0", "0", "0", "0", "0", "0", "0", "0", "0", "0", "0", "0", "0", "0", "0", "0">>,
    <<"0", "0", "0", "0", "0", "0", "0", "0", "0", "0", "0", "0", "0", "0", "0", "0", "0", "0", "0", "0", "0", "0", "0", "1", "7">>,
    <<"9", "9", "9", "9", "9", "9", "9", "9", "9", "9", "9", "9", "9", "9", "9", "9", "9", "9", "9", "9", "x">> }

MtuSamples ==
  { Auto, <<"1", "5", "0", "0">>, <<"7", "0", "0", "0", "0">>,
    <<"6", "5", "5", "3", "5">>, <<"6", "5", "5", "3", "6">>,
    <<"0", "x", "f", "f", "f", "f">>, <<"0", "x", "1", "0", "0", "0", "0">>,
    <<"0", "1", "7", "7", "7", "7", "7">>, <<"0", "2", "0", "0", "0", "0", "0">>,
    <<"6", "5", "_", "5", "3", "5">>, <<"-", "1", "5", "0", "0">>,
    <<"a", "u", "t", "o", "1">>, <<"A", "u", "t", "o">>, <<"0", "X", "1", "F">>,
    <<"0", "b", "1", "0", "1">>, <<"0", "o", "1", "7">>, <<"1", "5", "0", "0", " ">> }
    \cup BigSamples

MtuInputs == StringsUpTo(MtuChars, MaxMtuLen) \cup MtuSamples

InitMtu ==
  /\ pc = "mtu_call"
  /\ v \in MtuInputs
  /\ diags = <<>>
  /\ IdleEq /\ IdleFilter /\ IdleSchema /\ IdleEng

\* The framework calls ValidateDiagFunc with the configured value.
ValidateMtu ==
  /\ pc = "mtu_call"
  /\ diags' = MtuValidate(v)
  /\ pc' = "mtu_done"
  /\ UNCHANGED <<v, eqVars, filterVars, schemaVars, engVars>>

NextMtu == ValidateMtu

SpecMtu == InitMtu /\ [][NextMtu]_vars

(***************************************************************************)
(* What an integer literal of Go denotes (the syntax ParseInt reads with   *)
(* base 0), stated positionally: an optional sign, a radix prefix 0b, 0o,  *)
(* 0x or a leading 0 for octal, digits of that radix, and underscores only *)
(* between digits.                                                         *)
(***************************************************************************)
RECURSIVE Pow(_, _)
Pow(b, e) == IF e = 0 THEN 1 ELSE b * Pow(b, e - 1)

RECURSIVE SumTo(_, _)
SumTo(f, n) == IF n = 0 THEN 0 ELSE f[n] + SumTo(f, n - 1)

LitUnsigned(s) == IF s # <<>> /\ s[1] \in {"+", "-"} THEN Tail(s) ELSE s

LitHasPrefix(s) ==
  LET u == LitUnsigned(s) IN Len(u) >= 3 /\ u[1] = "0" /\ lower(u[2]) \in {"b", "o", "x"}

LitRadix(s) ==
  LET u == LitUnsigned(s) IN
    IF LitHasPrefix(s)
    THEN (IF lower(u[2]) = "b" THEN 2 ELSE IF lower(u[2]) = "o" THEN 8 ELSE 16)
    ELSE IF u # <<>> /\ u[1] = "0" THEN 8 ELSE 10

LitDigits(s) ==
  LET u == LitUnsigned(s) IN IF LitHasPrefix(s) THEN Tail2(u) ELSE u

LitCharVal(c) ==
  IF IsDigit(c) THEN DigitVal(c)
  ELSE IF IsIn(LowerChars, lower(c)) THEN IndexOf(LowerChars, lower(c)) + 9
  ELSE 99

IsIntLiteral(s) ==
  LET u == LitUnsigned(s)
      d == LitDigits(s)
      off == Len(u) - Len(d)
  IN /\ u # <<>>
     /\ \A i \in 1..Len(d) : d[i] = "_" \/ LitCharVal(d[i]) < LitRadix(s)
     /\ \A i \in 1..Len(d) : d[i] = "_" =>
           /\ i + off > 1 /\ u[i + off - 1] # "_"
           /\ i < Len(d) /\ d[i + 1] # "_"

\* The digits of the literal as numbers, without underscores and without
\* leading zeros.
RECURSIVE DropZeros(_)
DropZeros(d) == IF d # <<>> /\ Head(d) = 0 THEN DropZeros(Tail(d)) ELSE d

LitSig(s) ==
  LET d == SelectSeq(LitDigits(s), LAMBDA c : c # "_")
  IN DropZeros([i \in 1..Len(d) |-> LitCharVal(d[i])])

LitNegative(s) == s[1] = "-" /\ LitSig(s) # <<>>

\* The number of digits of 65535 in the radix: a literal with more
\* significant digits denotes more.
MtuDigits(radix) == CHOOSE k \in 1..16 : Pow(radix, k) > 65535

\* The literal denotes a number in 0..65535.
LitInMtuRange(s) ==
  LET d == LitSig(s)
      k == Len(d)
      term == [i \in 1..k |-> d[i] * Pow(LitRadix(s), k - i)]
  IN ~LitNegative(s) /\ k <= MtuDigits(LitRadix(s)) /\ SumTo(term, k) <= 65535

\* 2^63 - 1 written in the radix, and 2^63.
Int64MaxDigits(radix) ==
  CASE radix = 2 -> [i \in 1..63 |-> 1]
    [] radix = 8 -> [i \in 1..21 |-> 7]
    [] radix = 10 -> <<9, 2, 2, 3, 3, 7, 2, 0, 3, 6, 8, 5, 4, 7, 7, 5, 8, 0, 7>>
    [] radix = 16 -> [i \in 1..16 |-> IF i = 1 THEN 7 ELSE 15]

Int64MinDigits(radix) ==
  CASE radix = 2 -> [i \in 1..64 |-> IF i = 1 THEN 1 ELSE 0]
    [] radix = 8 -> [i \in 1..22 |-> IF i = 1 THEN 1 ELSE 0]
    [] radix = 10 -> <<9, 2, 2, 3, 3, 7, 2, 0, 3, 6, 8, 5, 4, 7, 7, 5, 8, 0, 8>>
    [] radix = 16 -> [i \in 1..16 |-> IF i = 1 THEN 8 ELSE 0]

\* a <= b for two digit sequences without leading zeros.
DigitsLeq(a, b) ==
  \/ Len(a) < Len(b)
  \/ /\ Len(a) = Len(b)
     /\ \A i \in 1..Len(a) : (\A j \in 1..(i - 1) : a[j] = b[j]) => a[i] <= b[i]

\* The literal denotes a number of the int64 range -2^63 .. 2^63 - 1.
LitFitsInt64(s) ==
  DigitsLeq(LitSig(s), IF LitNegative(s) THEN Int64MinDigits(LitRadix(s))
                       ELSE Int64MaxDigits(LitRadix(s)))

RECURSIVE LitMagnitude(_, _, _)
\* The number the digits d denote in the radix, added to acc.
LitMagnitude(d, radix, acc) ==
  IF d = <<>> THEN acc ELSE LitMagnitude(Tail(d), radix, BigMulAdd(acc, radix, Head(d)))

\* Two literals denote the same integer.
SameInteger(a, b) ==
  /\ LitNegative(a) = LitNegative(b)
  /\ LitMagnitude(LitSig(a), LitRadix(a), <<>>) = LitMagnitude(LitSig(b), LitRadix(b), <<>>)

Seventy000 == <<"7", "0", "0", "0", "0">>

\* C1: the MTU validator returns no diagnostics exactly for "auto" and for
\* integer literals denoting a value in 0..65535, and an error-severity
\* diagnostic for every other string ("", text, negatives, 70000).
C1_MtuAcceptsAutoOrRange ==
  pc = "mtu_done" =>
    /\ (diags = <<>>) <=>
          (v = Auto \/ (IsIntLiteral(v) /\ LitInMtuRange(v)))
    /\ \A i \in 1..Len(diags) : diags[i].Severity = "Error"
    /\ (v \in {<<>>, Seventy000, <<"-", "1">>, <<"a">>}) => diags # <<>>

C1_Witness ==
  pc = "mtu_done" /\ v = Seventy000 /\ Len(diags) = 1 /\ diags[1].Severity = "Error"

\* C4 as claimed: every error diagnostic of the MTU validator contains the
\* rejected input string.
C4_EveryErrorNamesValue ==
  (pc = "mtu_done" /\ diags # <<>>) => Contains(diags[1].Summary, v)

\* C4 amended: the diagnostic for an integer of the int64 range that is
\* outside 0..65535 ends with the rejected input string; the diagnostic for
\* an input that is not an integer literal, or denotes a number outside the
\* int64 range, is one fixed text, whatever the input.
C4_RangeErrorNamesValue ==
  (pc = "mtu_done" /\ diags # <<>>) =>
    IF IsIntLiteral(v) /\ LitFitsInt64(v)
    THEN /\ Contains(diags[1].Summary, v)
         /\ SubSeq(diags[1].Summary, Len(diags[1].Summary) - Len(v) + 1,
                   Len(diags[1].Summary)) = v
    ELSE diags[1].Summary = MsgMtuNotInt

C4_Witness ==
  /\ pc = "mtu_done" /\ v = Seventy000 /\ diags # <<>>
  /\ Contains(diags[1].Summary, Seventy000)

(***************************************************************************)
(* SpecTime: ValidationTime applied to one input string.                   *)
(***************************************************************************)
MaxTimeLen == 4

TimeChars == {"5", "s", "m", "M", "h", "x"}

TimeSamples ==
  { <<"5", "0", "0", "m", "s">>, <<"1", "w", "2", "d", "3", "h">>,
    <<"3", "6", "0", "0", "s">>, <<"1", "d", "1", "2", "h">>,
    <<"1", "h", "3", "0", "M">>, <<"5", "s", "5", "s", " ">>,
    <<"-", "5", "s", "5", "s">>, <<"1", "h", "3", "0", "m", "5", "s">> }

TimeInputs == StringsUpTo(TimeChars, MaxTimeLen) \cup TimeSamples

InitTime ==
  /\ pc = "time_call"
  /\ v \in TimeInputs
  /\ key \in {KeyInterval, "timeout"}
  /\ diags = <<>>
  /\ IdlePair /\ IdleFilter /\ IdleSchema /\ IdleEng

\* The framework calls the field's ValidateFunc with the configured value.
ValidateTime ==
  /\ pc = "time_call"
  /\ diags' = ValidationTime(v, key)
  /\ pc' = "time_done"
  /\ UNCHANGED <<v, eqVars, filterVars, schemaVars, engVars>>

NextTime == ValidateTime

SpecTime == InitTime /\ [][NextTime]_vars

RECURSIVE DigitRun(_)
\* The length of the longest prefix of s made of digits.
DigitRun(s) == IF s # <<>> /\ IsDigit(Head(s)) THEN 1 + DigitRun(Tail(s)) ELSE 0

RECURSIVE IsUnitTokens(_)
\* A non-empty sequence of <integer><unit> tokens, unit in {ms, s, M, h, d, w}.
IsUnitTokens(s) ==
  LET n == DigitRun(s)
      r == SubSeq(s, n + 1, Len(s))
      u == IF Len(r) >= 2 /\ SubSeq(r, 1, 2) = <<"m", "s">> THEN 2
           ELSE IF r # <<>> /\ r[1] \in {"s", "M", "h", "d", "w"} THEN 1
           ELSE 0
      rest == SubSeq(r, u + 1, Len(r))
  IN n >= 1 /\ u >= 1 /\ (rest = <<>> \/ IsUnitTokens(rest))

\* A non-empty sequence of <integer>[unit] tokens, the unit optional and one
\* of s, m, h, d, w: it starts with a digit, and each unit letter directly
\* follows a digit.
IsOptUnitTokens(s) ==
  /\ s # <<>>
  /\ IsDigit(s[1])
  /\ \A i \in 1..Len(s) :
       \/ IsDigit(s[i])
       \/ s[i] \in {"s", "m", "h", "d", "w"} /\ i > 1 /\ IsDigit(s[i - 1])

\* C5 as claimed: ValidationTime accepts exactly the non-empty sequences of
\* <integer><unit> tokens with units in {ms, s, M, h, d, w}.
C5_AcceptsUnitTokens ==
  pc = "time_done" => ((diags = <<>>) <=> IsUnitTokens(v))

\* C5 amended: ValidationTime accepts exactly the non-empty sequences of
\* <integer>[unit] tokens whose unit is optional and one of s, m, h, d, w; so
\* "5", "5m" and "1w2d3h" are accepted and "500ms" and "5M" are rejected.
C5_AcceptsOptUnitTokens ==
  pc = "time_done" =>
    /\ (diags = <<>>) <=> IsOptUnitTokens(v)
    /\ v \in {<<"5">>, <<"5", "m">>, <<"1", "w", "2", "d", "3", "h">>} => diags = <<>>
    /\ v \in {<<"5", "0", "0", "m", "s">>, <<"5", "M">>, <<>>} => diags # <<>>

C5_Witness ==
  /\ pc = "time_done" /\ v = <<"5", "0", "0", "m", "s">>
  /\ diags # <<>> /\ diags[1].Summary[4] = MsgTime

(***************************************************************************)
(* SpecArp: the arp_timeout validator applied to one input string.         *)
(***************************************************************************)
MaxArpLen == 3

ArpChars == {"5", "s", "m", "M", "x", "a"}

ArpSamples ==
  { Auto, <<"x", "a", "u", "t", "o">>, <<"a", "b", "c", "5", "s">>,
    <<"a", "u", "t", "o", "x">>, <<"1", "h", "3", "0", "M">>,
    <<"5", "0", "0", "m", "s">>, <<"3", "0", "s", " ">> }

ArpInputs == StringsUpTo(ArpChars, MaxArpLen) \cup ArpSamples

InitArp ==
  /\ pc = "arp_call"
  /\ v \in ArpInputs
  /\ key = KeyArpTimeout
  /\ diags = <<>>
  /\ IdlePair /\ IdleFilter /\ IdleSchema /\ IdleEng

\* The framework calls the field's ValidateFunc with the configured value.
ValidateArpTimeout ==
  /\ pc = "arp_call"
  /\ diags' = ArpTimeoutValidate(v, key)
  /\ pc' = "arp_done"
  /\ UNCHANGED <<v, eqVars, filterVars, schemaVars, engVars>>

NextArp == ValidateArpTimeout

SpecArp == InitArp /\ [][NextArp]_vars

RECURSIVE IsArpTime(_)
\* One or more <integer>[ms|s|M|h|d] tokens, the postfix optional.
IsArpTime(s) ==
  LET n == DigitRun(s)
      r == SubSeq(s, n + 1, Len(s))
      u == IF Len(r) >= 2 /\ SubSeq(r, 1, 2) = <<"m", "s">> THEN 2
           ELSE IF r # <<>> /\ r[1] \in {"s", "M", "h", "d"} THEN 1
           ELSE 0
      rest == SubSeq(r, u + 1, Len(r))
  IN n >= 1 /\ (rest = <<>> \/ IsArpTime(rest))

\* C7: the arp_timeout validator accepts a string if and only if it is
\* empty, exactly "auto", or a time value of <integer>[ms|s|M|h|d] tokens;
\* every other string, such as "xauto" or "abc5s", is rejected with the
\* message that the value must be 'auto' or a time value.
C7_AcceptsAutoOrTime ==
  pc = "arp_done" =>
    IF v = <<>> \/ v = Auto \/ IsArpTime(v)
    THEN diags = <<>>
    ELSE diags # <<>> /\ diags[1].Summary[4] = MsgArpTimeout

(***************************************************************************)
(* SpecTimeEq: TimeEquall applied to one pair of strings.                  *)
(***************************************************************************)
MaxDurLen == 3

DurChars == {"1", "7", "d", "w"}

DurSamples ==
  { <<"1", "h">>, <<"2", "h">>, <<"3", "6", "0", "0", "s">>, <<"6", "0", "M">>,
    <<"1", "s">>, <<"1", "0", "0", "0", "m", "s">>, <<"5", "0", "0", "m", "s">>,
    <<"1", "h", "3", "0", "M">>, <<"9", "0", "M">>, <<"5", "m">>, <<"3", "0">> }

DurInputs == StringsUpTo(DurChars, MaxDurLen) \cup DurSamples

Keys == {KeyInterval, "timeout"}

InitTimeEq ==
  /\ pc = "timeeq_call"
  /\ key \in Keys
  /\ old \in DurInputs
  /\ new \in DurInputs
  /\ ret = "none"
  /\ IdleVal /\ IdleFilter /\ IdleSchema /\ IdleEng

\* The framework calls the field's DiffSuppressFunc with the state value
\* (old) and the configured value (new).
CallTimeEquall ==
  /\ pc = "timeeq_call"
  /\ ret' = TimeEquall(key, old, new)
  /\ pc' = "timeeq_done"
  /\ UNCHANGED <<key, old, new, valVars, filterVars, schemaVars, engVars>>

NextTimeEq == CallTimeEquall

SpecTimeEq == InitTimeEq /\ [][NextTimeEq]_vars

Parses(s) == s # <<>> /\ ParseDuration(s).err = "nil"

SameSeconds(a, b) ==
  LET x == ParseDuration(a).d
      y == ParseDuration(b).d
  IN x.sec = y.sec /\ x.ms = y.ms

\* C2: for every pair of non-empty duration strings that both parse,
\* TimeEquall returns true exactly when the two are the same number of
\* seconds ("1h" and "3600s" yes, "1h" and "2h" no), whatever the field key
\* and whichever of the two comes first.
C2_TimeEquallBySeconds ==
  (pc = "timeeq_done" /\ Parses(old) /\ Parses(new)) =>
    /\ ret = BoolStr(SameSeconds(old, new))
    /\ \A k \in Keys : TimeEquall(k, new, old) = ret
    /\ (old = <<"1", "h">> /\ new = <<"3", "6", "0", "0", "s">>) => ret = "true"
    /\ (old = <<"1", "h">> /\ new = <<"2", "h">>) => ret = "false"

C2_Witness ==
  /\ pc = "timeeq_done"
  /\ old = <<"1", "h">> /\ new = <<"3", "6", "0", "0", "s">>
  /\ ret = "true"

(***************************************************************************)
(* SpecHexEq: HexEqual applied to one pair of strings.                     *)
(***************************************************************************)
MaxHexLen == 3

HexChars == {"0", "1", "8", "x"}

HexSamples == { <<"0", "x", "1", "0">>, <<"1", "6">>, <<"0", "2", "0">> } \cup BigSamples

HexInputs == StringsUpTo(HexChars, MaxHexLen) \cup HexSamples

InitHexEq ==
  /\ pc = "hexeq_call"
  /\ key \in {KeyMtu, "l2mtu"}
  /\ old \in HexInputs
  /\ new \in HexInputs
  /\ ret = "none"
  /\ IdleVal /\ IdleFilter /\ IdleSchema /\ IdleEng

CallHexEqual ==
  /\ pc = "hexeq_call"
  /\ ret' = HexEqual(key, old, new)
  /\ pc' = "hexeq_done"
  /\ UNCHANGED <<key, old, new, valVars, filterVars, schemaVars, engVars>>

NextHexEq == CallHexEqual

SpecHexEq == InitHexEq /\ [][NextHexEq]_vars

\* C10: HexEqual always returns a boolean and never aborts: true when the
\* two strings are identical or denote the same integer in any notation,
\* false otherwise, also when one is empty or is not a parseable integer.
C10_HexEqualTotal ==
  pc = "hexeq_done" =>
    ret = BoolStr(\/ old = new
                  \/ /\ IsIntLiteral(old) /\ IsIntLiteral(new)
                     /\ SameInteger(old, new))

(***************************************************************************)
(* SpecFilter: buildReadFilter called twice on the same filter map.        *)
(***************************************************************************)
MaxFilterFields == 3

FilterFieldNames ==
  << <<"n", "a", "m", "e">>, <<"m", "t", "u">>, <<"a">>, <<"i", "d">>, <<"b">> >>

FilterFields == { FilterFieldNames[i] : i \in 1..MaxFilterFields }

FilterValues == { <<"x">>, <<"1", "5">>, <<>> }

FilterMaps == UNION { [d -> FilterValues] : d \in SUBSET FilterFields }

InitFilter ==
  /\ pc = "filter_call"
  /\ fm \in FilterMaps
  /\ res = <<>>
  /\ prev = <<>>
  /\ IdleVal /\ IdleEq /\ IdleSchema /\ IdleEng

\* One call of buildReadFilter(fm); the result of the call before is kept
\* in prev.
CallBuildReadFilter ==
  /\ pc \in {"filter_call", "filter_once"}
  /\ res' \in buildReadFilter(fm)
  /\ prev' = res
  /\ pc' = IF pc = "filter_call" THEN "filter_once" ELSE "filter_twice"
  /\ UNCHANGED <<fm, valVars, eqVars, schemaVars, engVars>>

NextFilter == CallBuildReadFilter

SpecFilter == InitFilter /\ [][NextFilter]_vars

\* C9 as claimed: the result has one "field=value" string per entry, and two
\* calls with the same map return the same strings in the same order.
C9_SameOrderEachCall ==
  /\ pc \in {"filter_once", "filter_twice"} => Len(res) = Cardinality(DOMAIN fm)
  /\ pc = "filter_twice" => res = prev

\* C9 amended: the result has exactly n strings, one "field=value" per entry
\* of the map, and two calls with the same map return the same strings, but
\* in an order that may differ from call to call.
C9_SameStringsAnyOrder ==
  /\ pc \in {"filter_once", "filter_twice"} =>
       /\ Len(res) = Cardinality(DOMAIN fm)
       /\ \A f \in DOMAIN fm :
            Cardinality({i \in 1..Len(res) : res[i] = f \o <<"=">> \o fm[f]}) = 1
  /\ pc = "filter_twice" =>
       \E p \in [1..Len(res) -> 1..Len(prev)] :
         /\ \A i, j \in 1..Len(res) : i # j => p[i] # p[j]
         /\ \A i \in 1..Len(res) : res[i] = prev[p[i]]

C9_Witness ==
  /\ pc = "filter_twice" /\ Cardinality(DOMAIN fm) = 3
  /\ res # prev
  /\ { res[i] : i \in 1..3 } = { prev[i] : i \in 1..3 }

(***************************************************************************)
(* SpecSchema: a resource schema assembled from the property constructors. *)
(***************************************************************************)
ResourcePaths == {"/system/scheduler", "/interface/bridge"}

IdTypes == {"Id", "Name"}

InitSchema ==
  /\ pc = "schema"
  /\ schema = <<>>
  /\ IdleVal /\ IdleEq /\ IdleFilter /\ IdleEng

\* MetaResourcePath: PropResourcePath(p)
AddResourcePath(p) ==
  /\ pc = "schema"
  /\ MetaResourcePath \notin DOMAIN schema
  /\ schema' = schema @@ (MetaResourcePath :> PropResourcePath(p))
  /\ UNCHANGED <<pc, valVars, eqVars, filterVars, engVars>>

\* MetaId: PropId(t)
AddId(t) ==
  /\ pc = "schema"
  /\ MetaId \notin DOMAIN schema
  /\ schema' = schema @@ (MetaId :> PropId(t))
  /\ UNCHANGED <<pc, valVars, eqVars, filterVars, engVars>>

\* One of the shared property values under its key.
AddProp(k) ==
  /\ pc = "schema"
  /\ k \notin DOMAIN schema
  /\ schema' = schema @@ (k :> SharedProps[k])
  /\ UNCHANGED <<pc, valVars, eqVars, filterVars, engVars>>

NextSchema ==
  \/ \E p \in ResourcePaths : AddResourcePath(p)
  \/ \E t \in IdTypes : AddId(t)
  \/ \E k \in DOMAIN SharedProps : AddProp(k)

SpecSchema == InitSchema /\ [][NextSchema]_vars

\* C6: every metadata field of a resource schema has type string: the
\* properties under ___path___ and under ___id___ are both declared with the
\* string type, whatever was passed to the constructor.
C6_MetaFieldsAreStrings ==
  \A k \in {MetaId, MetaResourcePath} \cap DOMAIN schema :
    schema[k].Type = "TypeString"

(***************************************************************************)
(* Spec: reconciliation of one resource instance against the device, with  *)
(* changes made to the device from outside.                                *)
(***************************************************************************)
CommentTexts == { <<"a">>, <<"b">> }

PlaceTexts == { <<"*", "A">>, <<"*", "B">> }

PathTexts == { <<"/", "s">>, <<"/", "x">> }

IdTypeText == <<"1">>

\* No value, or one of the texts.
Optional(texts) == {{}} \cup { {t} : t \in texts }

\* The field k with the value in x, or no field when x is empty.
FieldOf(k, x) == [f \in { g \in {k} : x # {} } |-> CHOOSE t \in x : TRUE]

\* The desired instances: the metadata fields always, the others optional.
DesiredInstances ==
  { (MetaId :> IdTypeText) @@ (MetaResourcePath :> p) @@ FieldOf(KeyComment, c)
      @@ FieldOf(KeyInterval, i) @@ FieldOf(KeyPlaceBefore, b) :
      p \in PathTexts, c \in Optional({<<"a">>}),
      i \in Optional(IntervalTexts), b \in Optional(PlaceTexts) }

Init ==
  /\ pc = "engine"
  /\ device = NoRecord
  /\ identity = ""
  /\ last = <<>>
  /\ plan = <<>>
  /\ issued = <<>>
  /\ inPlaceReordering \in BOOLEAN
  /\ IdleVal /\ IdleEq /\ IdleFilter /\ IdleSchema

\* One reconciliation call for the desired instance D.
Reconcile(D) ==
  LET p == PlanFor(identity, device, D, inPlaceReordering)
      e == IF KeyInterval \in DOMAIN D THEN Echoes(D[KeyInterval]) ELSE {<<>>}
  IN /\ pc = "engine"
     /\ plan' = p
     /\ issued' = CommandsFor(identity, p)
     /\ last' = D
     /\ CASE p = <<"NoOp">> -> UNCHANGED <<device, identity>>
          [] p = <<"Update">> \/ p = <<"Update", "Move">> ->
               /\ \E x \in e : device' = Written(device, D, x)
               /\ UNCHANGED identity
          [] p = <<"Move">> ->
               /\ device' = [device EXCEPT ![OrderingField] = D[OrderingField]]
               /\ UNCHANGED identity
          [] OTHER ->
               /\ \E x \in e : device' = Written(FreshRecord, D, x)
               /\ \E i \in Identities : i # identity /\ identity' = i
     /\ UNCHANGED <<pc, inPlaceReordering, valVars, eqVars, filterVars, schemaVars>>

\* The caller deletes the instance.
Delete ==
  /\ pc = "engine"
  /\ identity # ""
  /\ plan' = <<"Delete">>
  /\ issued' = <<"remove">>
  /\ device' = NoRecord
  /\ identity' = ""
  /\ last' = <<>>
  /\ UNCHANGED <<pc, inPlaceReordering, valVars, eqVars, filterVars, schemaVars>>

\* Drift: a field of the instance is changed on the device from outside.
DriftChange(f, val) ==
  /\ pc = "engine"
  /\ device # NoRecord
  /\ device[f] # val
  /\ device' = [device EXCEPT ![f] = val]
  /\ last' = <<>>
  /\ UNCHANGED <<pc, identity, plan, issued, inPlaceReordering, valVars, eqVars,
                 filterVars, schemaVars>>

\* Drift: the instance is removed on the device from outside.
DriftRemove ==
  /\ pc = "engine"
  /\ device # NoRecord
  /\ device' = NoRecord
  /\ last' = <<>>
  /\ UNCHANGED <<pc, identity, plan, issued, inPlaceReordering, valVars, eqVars,
                 filterVars, schemaVars>>

Next ==
  \/ \E D \in DesiredInstances : Reconcile(D)
  \/ Delete
  \/ \E val \in CommentTexts : DriftChange(KeyComment, val)
  \/ \E val \in IntervalTexts : DriftChange(KeyInterval, val)
  \/ DriftRemove

Spec == Init /\ [][Next]_vars

WriteCommands(cmds) == SelectSeq(cmds, LAMBDA c : c \in {"add", "set", "remove", "move"})

\* Every explicitly desired field of D equals the observed value in the
\* sense of its field: the same duration for the duration field, any value
\* for the two metadata fields, the same text for the rest.
MatchesDevice(D) ==
  /\ identity # ""
  /\ device # NoRecord
  /\ KeyComment \in DOMAIN D => D[KeyComment] = device[KeyComment]
  /\ KeyPlaceBefore \in DOMAIN D => D[KeyPlaceBefore] = device[KeyPlaceBefore]
  /\ KeyInterval \in DOMAIN D =>
       /\ Parses(device[KeyInterval])
       /\ SameSeconds(D[KeyInterval], device[KeyInterval])

\* C3: when every explicitly desired field equals the observed value under
\* its field's diff-suppressor, the plan is NoOp, no add, set, remove or move
\* is issued and the device is unchanged; so reconciling the same desired
\* state again, with no drift in between, is a NoOp.
C3_IdempotentUnderSuppression ==
  [][(last' # <<>> /\ Reconcile(last') /\ (MatchesDevice(last') \/ last = last')) =>
         /\ plan' = <<"NoOp">>
         /\ WriteCommands(issued') = <<>>
         /\ device' = device
         /\ identity' = identity]_vars

C3_Witness ==
  /\ plan = <<"NoOp">>
  /\ KeyInterval \in DOMAIN last
  /\ device # NoRecord
  /\ device[KeyInterval] # last[KeyInterval]
  /\ device[MetaResourcePath] # last[MetaResourcePath]
  /\ WriteCommands(issued) = <<>>

\* A command of the call is c.
Issues(cmds, c) == \E i \in 1..Len(cmds) : cmds[i] = c

\* The number of times the call issues c.
TimesIssued(cmds, c) == Cardinality({ i \in 1..Len(cmds) : cmds[i] = c })

\* A desired field other than place_before differs from the device: another
\* text of the comment, or another duration.
OtherFieldDiffers(D) ==
  \/ KeyComment \in DOMAIN D /\ D[KeyComment] # device[KeyComment]
  \/ KeyInterval \in DOMAIN D /\
       ~(Parses(device[KeyInterval]) /\ SameSeconds(D[KeyInterval], device[KeyInterval]))

\* The call reconciles an existing instance whose desired place_before
\* differs from the one on the device.
PlaceBeforeChanges ==
  /\ last' # <<>> /\ Reconcile(last')
  /\ identity # "" /\ device # NoRecord
  /\ KeyPlaceBefore \in DOMAIN last'
  /\ last'[KeyPlaceBefore] # device[KeyPlaceBefore]

====
